---- MODULE Spec2Model ----
(***************************************************************************)
(* Supervision core of the phoenixd-dashboard desktop application:         *)
(* ProcessManager (process_manager.rs), DockerManager (docker_manager.rs)  *)
(* and the setup closure, tray callbacks, restart_all and shutdown_all of  *)
(* main.rs.                                                                 *)
(*                                                                         *)
(* The setup closure runs as process Main.  Each tray-menu event runs as a *)
(* callback of one of the processes in Threads; a callback is cut into     *)
(* steps at every lock operation, every external command and every stage   *)
(* of start_all / stop_all, so that concurrently invoked callbacks         *)
(* interleave at exactly the points where the code can be preempted with   *)
(* an observable difference.  What the filesystem, the docker CLI and the  *)
(* operating system answer is drawn with \E at the step that asks.         *)
(***************************************************************************)
EXTENDS Integers, Sequences, FiniteSets, TLC

\* Number of callbacks that can be in flight at the same time.
NumThreads == 2
\* Number of children of the application the operating system's process
\* table holds at one time; Command::spawn fails while it is full.
MaxProcs == 3
Pids == 1 .. MaxProcs

Main == 0
Threads == 1 .. NumThreads
Procs == {Main} \cup Threads

Services == {"phoenixd", "backend", "frontend"}

\* stop_all: "Stop in reverse order".
StopOrder_forward == <<"phoenixd", "backend", "frontend">>
StopOrder == <<"frontend", "backend", "phoenixd">>

\* Option<Child>::None in a slot of ProcessManager.
None == 0

CommandOutcomes == {"success", "nonzero", "launch_failed"}

\* Length of the content of phoenix.conf, in the units of ConfChars.
MaxFileLen == 5

\* Number of lines `docker compose ps --format json` prints.
MaxLines == 2

\* Number of calls of start_backend on one data directory.
MaxStarts == 3

VARIABLES
    pc,               \* position of every process
    op,               \* the operation a process is executing
    mode,             \* a callback's clone of run_mode
    res,              \* results returned to a process by the calls it made
    run_mode,         \* RunMode chosen by setup; "Unset" before
    process_manager,  \* Option<ProcessManager>: "None" or "Some"
    slots,            \* ProcessManager.{phoenixd, backend, frontend}
    managed,          \* app.manage(AppState) was called
    exit_requested,   \* app.exit(0) was called
    rm_lock,          \* holder of AppState.run_mode's Mutex, 0 when free
    dm_lock,          \* holder of AppState.docker_manager's Mutex
    pm_lock,          \* holder of AppState.process_manager's Mutex
    containers,       \* the application brought the compose project up and
                      \* no `down` has succeeded since
    procs,            \* the process table: "none" for a free pid, "child"
                      \* for a child that was spawned and not yet waited
                      \* for, whether it still runs or has exited
    docker_available, \* setup's local docker_available
    stages,           \* stages attempted by the latest start_all
    kill_log,         \* children killed and waited for by the latest stop_all
    held_at_stop,     \* slots that held a handle when the latest stop_all began
    pm_calls,         \* <<previous, latest>> public ProcessManager call
    local_start_calls,\* number of start_all calls made by setup
    docker_log,       \* what the latest DockerManager call looked up and ran
    call              \* the latest call of a function that main.rs does not
                      \* call, or that is applied on its own: its name, its
                      \* inputs and what it returned

vars == <<pc, op, mode, res, run_mode, process_manager, slots, managed,
          exit_requested, rm_lock, dm_lock, pm_lock, containers, procs,
          docker_available, stages, kill_log, held_at_stop, pm_calls,
          local_start_calls,
                   docker_log, call>>

NoRes == [start_all |-> "none", start_containers |-> "none", stop_containers |-> "none"]
EmptySlots == [phoenixd |-> None, backend |-> None, frontend |-> None]
NoCall == [fn |-> "none", in |-> <<>>, out |-> <<>>]

Init ==
    /\ pc = [t \in Procs |-> IF t = Main THEN "setup" ELSE "idle"]
    /\ op = [t \in Procs |-> IF t = Main THEN "setup" ELSE "none"]
    /\ mode = [t \in Procs |-> "Unset"]
    /\ res = [t \in Procs |-> NoRes]
    /\ run_mode = "Unset"
    /\ process_manager = "None"
    /\ slots = EmptySlots
    /\ managed = FALSE
    /\ exit_requested = FALSE
    /\ rm_lock = 0
    /\ dm_lock = 0
    /\ pm_lock = 0
    /\ containers = FALSE
    /\ procs = [p \in Pids |-> "none"]
    /\ docker_available = FALSE
    /\ stages = <<>>
    /\ kill_log = <<>>
    /\ held_at_stop = {}
    /\ pm_calls = <<"none", "none">>
    /\ local_start_calls = 0
    /\ docker_log = <<>>
    /\ call = NoCall

----------------------------------------------------------------------------
(* Pure parts of the code.                                                 *)

\* Mutex::lock blocks until the mutex is free.
LockFree_absent(l) == TRUE
LockFree(l) == l = 0

\* get_phoenixd_binary_path: the name of the bundled binary, by
\* cfg!(target_os = "windows").
binary_name(windows) == IF windows THEN "phoenixd.exe" ELSE "phoenixd"

\* get_phoenixd_binary_path: bundled if it exists, else PATH, else bundled.
get_phoenixd_binary_path_system_first(bundled_exists, which_found) ==
    IF which_found THEN "system" ELSE "bundled"
get_phoenixd_binary_path(bundled_exists, which_found) ==
    IF bundled_exists THEN "bundled"
    ELSE IF which_found THEN "system"
    ELSE "bundled"

\* start_phoenixd up to and including spawn: TRUE when a child was spawned.
start_phoenixd_ok(bundled_exists, which_found, mkdir_ok, spawn_ok) ==
    LET path == get_phoenixd_binary_path(bundled_exists, which_found)
        exists == IF path = "bundled" THEN bundled_exists ELSE TRUE
    IN  exists /\ mkdir_ok /\ spawn_ok

\* The files has_all_resources looks for in a directory, by the name the
\* model gives them.
ResourceFiles == {"phoenixd", "phoenixd.exe", "index.js", "server.js"}

\* The directories find_resource_dir looks into, in the order it does.
Candidates == <<"default_dir", "up_resources", "dev_resources">>

\* What a directory holds: the set of the ResourceFiles that exist in it.
\* has_all_resources: binaries/phoenixd or binaries/phoenixd.exe, and
\* backend/dist/index.js, and frontend/server.js.
has_all_resources(dir) ==
    LET has_phoenixd == "phoenixd" \in dir \/ "phoenixd.exe" \in dir
        has_backend == "index.js" \in dir
        has_frontend == "server.js" \in dir
    IN  has_phoenixd /\ has_backend /\ has_frontend

\* find_resource_dir: fs gives every candidate's content, has_ancestors
\* tells whether default_dir has the three ancestors dev_resources is
\* built from.
find_resource_dir_reversed(fs, has_ancestors) ==
    IF has_ancestors /\ has_all_resources(fs["dev_resources"])
    THEN "dev_resources"
    ELSE IF has_all_resources(fs["up_resources"]) THEN "up_resources"
    ELSE "default_dir"
find_resource_dir(fs, has_ancestors) ==
    IF has_all_resources(fs["default_dir"]) THEN "default_dir"
    ELSE IF has_all_resources(fs["up_resources"]) THEN "up_resources"
    ELSE IF has_ancestors /\ has_all_resources(fs["dev_resources"])
         THEN "dev_resources"
    ELSE "default_dir"

\* What phoenix.conf is made of: "http-password=" is that text as a whole,
\* "x" a character that is neither white space nor part of that text, " " a
\* blank and "\n" the end of a line.
ConfChars == {"http-password=", "x", " ", "\n"}

\* The index of the first "\n" of text, 0 when it has none.
find_newline(text) ==
    IF \E i \in DOMAIN text : text[i] = "\n"
    THEN CHOOSE i \in DOMAIN text :
            text[i] = "\n" /\ \A j \in 1 .. i - 1 : text[j] # "\n"
    ELSE 0

\* str::lines: the lines of content without their "\n"; a final "\n" does
\* not start another line.
RECURSIVE lines(_)
lines(content) ==
    IF content = <<>> THEN <<>>
    ELSE LET i == find_newline(content) IN
         IF i = 0 THEN <<content>>
         ELSE <<SubSeq(content, 1, i - 1)>>
              \o lines(SubSeq(content, i + 1, Len(content)))

\* line.starts_with("http-password=")
starts_with(line) == line # <<>> /\ line[1] = "http-password="

\* line.replace("http-password=", ""): every occurrence is removed.
ReplaceKeeps(c) == c # "http-password="
replace(line) == SelectSeq(line, ReplaceKeeps)

\* str::trim: white space is removed from both ends.
RECURSIVE trim_start(_)
trim_start(text) ==
    IF text # <<>> /\ text[1] = " " THEN trim_start(Tail(text)) ELSE text
RECURSIVE trim_end(_)
trim_end(text) ==
    IF text # <<>> /\ text[Len(text)] = " "
    THEN trim_end(SubSeq(text, 1, Len(text) - 1))
    ELSE text
trim(text) == trim_end(trim_start(text))

\* read_phoenixd_password: "" for a file that is missing or cannot be read;
\* else the first line that starts with "http-password=", after replace and
\* trim; "" when there is no such line.
read_phoenixd_password(file) ==
    IF ~file.exists THEN <<>>
    ELSE IF ~file.readable THEN <<>>
    ELSE LET ls == lines(file.content)
             found == {i \in DOMAIN ls : starts_with(ls[i])}
         IN  IF found = {} THEN <<>>
             ELSE LET first == CHOOSE i \in found : \A j \in found : i <= j
                  IN  trim(replace(ls[first]))

\* A member of a JSON object as serde_json sees it: absent, a string, or a
\* value of another type.
Absent == [is |-> "absent", s |-> ""]
NotAString == [is |-> "other", s |-> ""]
Str(s) == [is |-> "string", s |-> s]

\* serde_json::from_str::<Value>(line): Ok for every JSON text, object or
\* not.
from_str_ok(line) == line.json # "invalid"

\* container[key]: Value::Null unless the value is an object with the key.
index(container, key) ==
    IF container.json = "object" /\ container[key].is # "absent"
    THEN container[key]
    ELSE NotAString

\* Value::as_str: an Option, <<>> for None and <<s>> for Some(s).
as_str(v) == IF v.is = "string" THEN <<v.s>> ELSE <<>>

\* Option::unwrap_or
unwrap_or(o, default) == IF o = <<>> THEN default ELSE o[1]

\* The ContainerStatus pushed for a line that parsed.
ContainerStatus(container) ==
    [name |-> unwrap_or(as_str(index(container, "Name")), "unknown"),
     status |-> unwrap_or(as_str(index(container, "State")), "unknown"),
     health |-> as_str(index(container, "Health"))]

\* The loop over stdout.lines(): `if let Ok(container) = from_str(line)`
\* has no else, the loop goes on with the next line.
RECURSIVE for_line_in(_)
after_bad_line_break(rest) == <<>>
after_bad_line(rest) == for_line_in(rest)
for_line_in(stdout_lines) ==
    IF stdout_lines = <<>> THEN <<>>
    ELSE IF from_str_ok(Head(stdout_lines))
         THEN <<ContainerStatus(Head(stdout_lines))>>
              \o for_line_in(Tail(stdout_lines))
         ELSE after_bad_line(Tail(stdout_lines))

\* get_container_status: the records of the lines when the command ran and
\* exited with success, Vec::new() otherwise.
get_container_status(output) ==
    IF output.launched /\ output.status = "success"
    THEN for_line_in(output.stdout_lines)
    ELSE <<>>

\* start_phoenixd step by step: the existence check of the resolved path,
\* create_dir_all, spawn; the first that fails returns its error.
start_phoenixd_result(bundled_exists, which_found, mkdir_ok, spawn_ok) ==
    LET path == get_phoenixd_binary_path(bundled_exists, which_found)
        exists == IF path = "bundled" THEN bundled_exists ELSE TRUE
    IN  IF ~exists THEN "Err_not_found"
        ELSE IF ~mkdir_ok THEN "Err_create_dir"
        ELSE IF ~spawn_ok THEN "Err_spawn"
        ELSE "Ok"

\* `self.<slot> = Some(child)` is reached by a stage that succeeded only:
\* what the slot holds after a stage that found h in it and, when ok,
\* spawned pid.
slot_after_stage_clear(h, ok, pid) == IF ok THEN pid ELSE None
slot_after_stage(h, ok, pid) == IF ok THEN pid ELSE h

\* find_node_binary: bundled runtime, else PATH, else Err.
find_node_binary(bundled_node, which_node) ==
    IF bundled_node THEN "bundled"
    ELSE IF which_node THEN "system"
    ELSE "Err"

\* What <dataDir>/dashboard.db can be: absent, the user's database, a copy
\* of template.db, or what a copy that failed left behind.
DbStates == {"absent", "user", "template", "partial"}

\* What std::fs::copy can answer: Ok, or Err with nothing or with a
\* partial file at the target.
CopyOutcomes == {"ok", "failed_nothing", "failed_partial"}

\* start_backend, "Copy template database if it doesn't exist": the copy
\* is attempted for a missing target and a present template only.
copy_attempted_always(db, template_exists) == template_exists
copy_attempted(db, template_exists) == db = "absent" /\ template_exists

\* dashboard.db after the copy block of start_backend.
db_after_copy(db, template_exists, copy) ==
    IF copy_attempted(db, template_exists)
    THEN CASE copy = "ok" -> "template"
           [] copy = "failed_partial" -> "partial"
           [] copy = "failed_nothing" -> db
    ELSE db

\* start_backend step by step: find_node_binary()?, the entry check, the
\* copy block (its error is printed, not returned), spawn.
start_backend_result(bundled_node, which_node, entry_exists, db, template_exists, copy, spawn_ok) ==
    IF find_node_binary(bundled_node, which_node) = "Err"
    THEN [result |-> "Err_node", db |-> db]
    ELSE IF ~entry_exists
    THEN [result |-> "Err_entry", db |-> db]
    ELSE [result |-> IF spawn_ok THEN "Ok" ELSE "Err_spawn",
          db |-> db_after_copy(db, template_exists, copy)]

\* start_backend / start_frontend up to and including spawn.
start_node_service_ok(bundled_node, which_node, entry_exists, spawn_ok) ==
    /\ find_node_binary(bundled_node, which_node) # "Err"
    /\ entry_exists
    /\ spawn_ok

\* find_compose_file followed by compose_file.exists().
compose_file_exists_always(bundled_exists, direct_exists) == TRUE
compose_file_exists(bundled_exists, direct_exists) ==
    LET file == IF bundled_exists THEN "bundled"
                ELSE IF direct_exists THEN "direct"
                ELSE "bundled"
    IN  IF file = "bundled" THEN bundled_exists ELSE direct_exists

\* Option::take on a slot of stop_all: the slot is left None.
take_keep(h) == h
take(h) == None

\* `if let Some(child) = slot.take()`: the body runs for a handle only.
is_some(h) == h # None

\* get_status, `.as_ref().map(|c| json!({"running": c.id() > 0, "pid":
\* c.id()}))` on one slot: an Option, <<>> for null.  alive tells whether
\* the child still runs; the code does not ask.
status_of_alive(h, alive) ==
    IF is_some(h) THEN <<[running |-> alive, pid |-> h]>> ELSE <<>>
status_of(h, alive) ==
    IF is_some(h) THEN <<[running |-> h > 0, pid |-> h]>> ELSE <<>>

\* impl Drop for ProcessManager: drop begins with self.stop_all().
drop_first_nothing(o) == "pm_unlock"
drop_first(o) == "stop_all"

\* child.kill() followed by child.wait(): the child is dead and reaped, its
\* entry in the process table is free again.
kill_and_wait_nowait(ps, h) == ps
kill_and_wait(ps, h) ==
    [p \in DOMAIN ps |-> IF p = h THEN "none" ELSE ps[p]]

\* Where start_all's caller continues once start_all has returned.
after_start_all_rollback(o, ok) ==
    IF ~ok THEN "stop_all" ELSE IF o = "setup" THEN "local_done" ELSE "pm_unlock"
after_start_all_fatal(o, ok) ==
    IF o = "setup" THEN (IF ok THEN "local_done" ELSE "aborted") ELSE "pm_unlock"
after_start_all(o, ok) ==
    IF o = "setup" THEN "local_done" ELSE "pm_unlock"

\* start_all: `?` after every stage returns the stage's error at once.
start_all_next_ignore_err(svc, ok, o) ==
    CASE svc = "phoenixd" -> "start_backend"
      [] svc = "backend"  -> "start_frontend"
      [] svc = "frontend" -> after_start_all(o, ok)
start_all_next(svc, ok, o) ==
    IF ~ok THEN after_start_all(o, FALSE)
    ELSE CASE svc = "phoenixd" -> "start_backend"
           [] svc = "backend"  -> "start_frontend"
           [] svc = "frontend" -> after_start_all(o, TRUE)

ErrOf == [phoenixd |-> "Err_phoenixd", backend |-> "Err_backend",
          frontend |-> "Err_frontend"]

\* The Result of start_all once stage svc has returned; "none" while it runs.
start_all_result(svc, ok) ==
    IF ~ok THEN ErrOf[svc]
    ELSE IF svc = "frontend" THEN "Ok" ELSE "none"

\* Where stop_all's caller continues: restart_all starts again, shutdown_all
\* is finished.
after_stop_all(o) == IF o = "restart" THEN "start_all" ELSE "pm_unlock"

\* restart_all, Local arm: pm.stop_all() comes first.
local_arm_first_nostop(o) == "start_all"
local_arm_first(o) == "stop_all"

\* Where start_containers' caller continues.
after_start_containers_nofallback(o, ok) ==
    IF o = "setup" THEN "docker_ok" ELSE "dm_unlock"
after_start_containers(o, ok) ==
    IF o = "setup" THEN (IF ok THEN "docker_ok" ELSE "local_mode") ELSE "dm_unlock"

\* Where stop_containers' caller continues: `let _ =` drops the Result.
after_stop_containers_only(o) == "dm_unlock"
after_stop_containers(o) == IF o = "quit" THEN "dm_unlock" ELSE "start_containers"

\* What a callback does to run_mode when its start_containers returns:
\* nothing.
run_mode_after_containers_switch(rm, ok) == IF ok THEN "Docker" ELSE rm
run_mode_after_containers(rm, ok) == rm

StopPc == [frontend |-> "stop_frontend", backend |-> "stop_backend",
           phoenixd |-> "stop_phoenixd"]

\* The pc after the stop of the i-th service of StopOrder.
stop_next_short(i, o) == after_stop_all(o)
stop_next(i, o) ==
    IF i < Len(StopOrder) THEN StopPc[StopOrder[i + 1]] ELSE after_stop_all(o)

Goto(t, where) == pc' = [pc EXCEPT ![t] = where]

\* A callback returns: its locals are gone.
Return(t) ==
    /\ pc' = [pc EXCEPT ![t] = "idle"]
    /\ op' = [op EXCEPT ![t] = "none"]
    /\ mode' = [mode EXCEPT ![t] = "Unset"]
    /\ res' = [res EXCEPT ![t] = NoRes]

----------------------------------------------------------------------------
(* ProcessManager.                                                         *)

FreePids == {p \in Pids : procs[p] = "none"}

\* Command::spawn: the operating system may refuse the launch, and does
\* while the process table is full.
SpawnOutcomes == IF FreePids # {} THEN BOOLEAN ELSE {FALSE}

\* The end of a start_* stage: on success the child is stored in the slot
\* (whatever the slot held is dropped, neither killed nor waited for).
Stage(t, svc, ok) ==
    LET pid == CHOOSE p \in FreePids : \A q \in FreePids : p <= q IN
    /\ procs' = IF ok THEN [procs EXCEPT ![pid] = "child"] ELSE procs
    /\ slots' = [slots EXCEPT ![svc] = slot_after_stage(slots[svc], ok, pid)]
    /\ stages' = Append(stages, [svc |-> svc, ok |-> ok,
                                 pid |-> IF ok THEN pid ELSE None])
    /\ res' = [res EXCEPT ![t].start_all = start_all_result(svc, ok)]
    /\ Goto(t, start_all_next(svc, ok, op[t]))
    /\ UNCHANGED <<op, mode, run_mode, process_manager, managed, exit_requested,
                   rm_lock, dm_lock, pm_lock, containers, docker_available,
                   kill_log, held_at_stop, pm_calls, local_start_calls,
                   docker_log, call>>

start_all(t) ==
    /\ pc[t] = "start_all"
    /\ stages' = <<>>
    /\ pm_calls' = <<pm_calls[2], "start_all">>
    /\ local_start_calls' = IF t = Main THEN local_start_calls + 1
                            ELSE local_start_calls
    /\ res' = [res EXCEPT ![t].start_all = "none"]
    /\ Goto(t, "start_phoenixd")
    /\ UNCHANGED <<op, mode, run_mode, process_manager, slots, managed,
                   exit_requested, rm_lock, dm_lock, pm_lock, containers, procs,
                   docker_available, kill_log, held_at_stop, docker_log, call>>

start_phoenixd(t) ==
    /\ pc[t] = "start_phoenixd"
    /\ \E bundled_exists, which_found, mkdir_ok \in BOOLEAN :
         \E spawn_ok \in SpawnOutcomes :
            Stage(t, "phoenixd",
                  start_phoenixd_ok(bundled_exists, which_found, mkdir_ok, spawn_ok))

\* Entered after the 2 s sleep that follows start_phoenixd.
start_backend(t) ==
    /\ pc[t] = "start_backend"
    /\ \E bundled_node, which_node, entry_exists \in BOOLEAN :
         \E spawn_ok \in SpawnOutcomes :
            Stage(t, "backend",
                  start_node_service_ok(bundled_node, which_node, entry_exists, spawn_ok))

\* Entered after the 1 s sleep that follows start_backend.
start_frontend(t) ==
    /\ pc[t] = "start_frontend"
    /\ \E bundled_node, which_node, entry_exists \in BOOLEAN :
         \E spawn_ok \in SpawnOutcomes :
            Stage(t, "frontend",
                  start_node_service_ok(bundled_node, which_node, entry_exists, spawn_ok))

stop_all(t) ==
    /\ pc[t] = "stop_all"
    /\ kill_log' = <<>>
    /\ held_at_stop' = {s \in Services : slots[s] # None}
    /\ pm_calls' = <<pm_calls[2], "stop_all">>
    /\ Goto(t, StopPc[StopOrder[1]])
    /\ UNCHANGED <<op, mode, res, run_mode, process_manager, slots, managed,
                   exit_requested, rm_lock, dm_lock, pm_lock, containers, procs,
                   docker_available, stages, local_start_calls,
                   docker_log, call>>

\* One `if let Some(mut child) = self.<slot>.take() { kill; wait }` of stop_all.
stop_service(t, i) ==
    LET svc == StopOrder[i]
        h == slots[svc]
    IN  /\ pc[t] = StopPc[svc]
        /\ IF is_some(h)
           THEN /\ kill_log' = Append(kill_log, [svc |-> svc, pid |-> h])
                /\ procs' = kill_and_wait(procs, h)
           ELSE UNCHANGED <<kill_log, procs>>
        /\ slots' = [slots EXCEPT ![svc] = take(h)]
        /\ Goto(t, stop_next(i, op[t]))
        /\ UNCHANGED <<op, mode, res, run_mode, process_manager, managed,
                       exit_requested, rm_lock, dm_lock, pm_lock, containers,
                       docker_available, stages, held_at_stop, pm_calls,
                       local_start_calls,
                   docker_log, call>>

----------------------------------------------------------------------------
(* DockerManager.                                                          *)

\* An entry of docker_log for the lookup of find_compose_file: `by` is the
\* method that looked, `out` tells whether the compose file was at one of
\* the two candidate paths or at neither.
Looked(by, bundled_exists, direct_exists) ==
    [by |-> by, cmd |-> "find_compose_file",
     out |-> IF bundled_exists \/ direct_exists THEN "found" ELSE "neither"]

\* An entry of docker_log for a `docker compose` command that was attempted,
\* with what Command::status answered.
Ran(by, cmd, outcome) == [by |-> by, cmd |-> cmd, out |-> outcome]

\* start_containers up to the pull: the compose file must exist and the
\* pull command must launch; its exit status only produces a warning.  (The
\* Result of a stop_containers before it was dropped by `let _ =`.)
start_containers(t) ==
    /\ pc[t] = "start_containers"
    /\ \E bundled_exists, direct_exists \in BOOLEAN, pull \in CommandOutcomes :
         LET failed == \/ ~compose_file_exists(bundled_exists, direct_exists)
                       \/ pull = "launch_failed"
         IN  /\ res' = [res EXCEPT ![t].start_containers =
                          IF ~compose_file_exists(bundled_exists, direct_exists)
                          THEN "Err_not_found"
                          ELSE IF pull = "launch_failed" THEN "Err_pull"
                          ELSE "none",
                                    ![t].stop_containers = "none"]
             /\ Goto(t, IF failed THEN after_start_containers(op[t], FALSE)
                        ELSE "compose_up")
             /\ run_mode' = IF failed /\ op[t] # "setup"
                            THEN run_mode_after_containers(run_mode, FALSE)
                            ELSE run_mode
             /\ docker_log' =
                    <<Looked("start_containers", bundled_exists, direct_exists)>>
                    \o (IF compose_file_exists(bundled_exists, direct_exists)
                        THEN <<Ran("start_containers", "pull", pull)>>
                        ELSE <<>>)
    /\ UNCHANGED <<op, mode, process_manager, slots, managed, exit_requested,
                   rm_lock, dm_lock, pm_lock, containers, procs,
                   docker_available, stages, kill_log, held_at_stop, pm_calls,
                   local_start_calls, call>>

\* start_containers, `docker compose up -d`.
compose_up(t) ==
    /\ pc[t] = "compose_up"
    /\ \E up \in CommandOutcomes :
         LET ok == up = "success" IN
         /\ containers' = IF ok THEN TRUE ELSE containers
         /\ res' = [res EXCEPT ![t].start_containers =
                      IF ok THEN "Ok" ELSE "Err_up"]
         /\ Goto(t, after_start_containers(op[t], ok))
         /\ run_mode' = IF op[t] # "setup"
                        THEN run_mode_after_containers(run_mode, ok)
                        ELSE run_mode
         /\ docker_log' = Append(docker_log, Ran("start_containers", "up", up))
    /\ UNCHANGED <<op, mode, process_manager, slots, managed, exit_requested,
                   rm_lock, dm_lock, pm_lock, procs, docker_available, stages,
                   kill_log, held_at_stop, pm_calls, local_start_calls, call>>

\* stop_containers: a no-op without a compose file, else `docker compose down`.
stop_containers(t) ==
    /\ pc[t] = "stop_containers"
    /\ \E bundled_exists, direct_exists \in BOOLEAN, down \in CommandOutcomes :
         LET present == compose_file_exists(bundled_exists, direct_exists) IN
         /\ containers' = IF present /\ down = "success" THEN FALSE ELSE containers
         /\ res' = [res EXCEPT ![t].stop_containers =
                      IF ~present \/ down = "success" THEN "Ok" ELSE "Err_down"]
         /\ docker_log' =
                <<Looked("stop_containers", bundled_exists, direct_exists)>>
                \o (IF present THEN <<Ran("stop_containers", "down", down)>>
                    ELSE <<>>)
    /\ Goto(t, after_stop_containers(op[t]))
    /\ UNCHANGED <<op, mode, run_mode, process_manager, slots, managed,
                   exit_requested, rm_lock, dm_lock, pm_lock, procs,
                   docker_available, stages, kill_log, held_at_stop, pm_calls,
                   local_start_calls, call>>

----------------------------------------------------------------------------
(* main.rs: the setup closure.                                             *)

\* DockerManager::new, is_docker_available, is_docker_installed and the
\* branch on docker_available.
setup ==
    /\ pc[Main] = "setup"
    /\ \E available \in BOOLEAN :
         /\ docker_available' = available
         /\ Goto(Main, IF available THEN "start_containers" ELSE "local_mode")
    /\ UNCHANGED <<op, mode, res, run_mode, process_manager, slots, managed,
                   exit_requested, rm_lock, dm_lock, pm_lock, containers, procs,
                   stages, kill_log, held_at_stop, pm_calls, local_start_calls,
                   docker_log, call>>

\* `let mut pm = ProcessManager::new(..)` of either Local branch; pm.start_all()
\* follows.
local_mode ==
    /\ pc[Main] = "local_mode"
    /\ process_manager' = "Some"
    /\ slots' = EmptySlots
    /\ Goto(Main, "start_all")
    /\ docker_log' = <<>>
    /\ UNCHANGED <<op, mode, res, run_mode, managed, exit_requested, rm_lock,
                   dm_lock, pm_lock, containers, procs, docker_available, stages,
                   kill_log, held_at_stop, pm_calls, local_start_calls, call>>

\* `process_manager = Some(pm); run_mode = RunMode::Local;`
local_done_as_docker ==
    /\ pc[Main] = "local_done"
    /\ run_mode' = "Docker"
    /\ Goto(Main, "manage")
    /\ UNCHANGED <<op, mode, res, process_manager, slots, managed,
                   exit_requested, rm_lock, dm_lock, pm_lock, containers, procs,
                   docker_available, stages, kill_log, held_at_stop, pm_calls,
                   local_start_calls, docker_log, call>>
local_done ==
    /\ pc[Main] = "local_done"
    /\ run_mode' = "Local"
    /\ Goto(Main, "manage")
    /\ UNCHANGED <<op, mode, res, process_manager, slots, managed,
                   exit_requested, rm_lock, dm_lock, pm_lock, containers, procs,
                   docker_available, stages, kill_log, held_at_stop, pm_calls,
                   local_start_calls,
                   docker_log, call>>

\* `Ok(_) => run_mode = RunMode::Docker`
docker_ok ==
    /\ pc[Main] = "docker_ok"
    /\ run_mode' = "Docker"
    /\ Goto(Main, "manage")
    /\ docker_log' = <<>>
    /\ UNCHANGED <<op, mode, res, process_manager, slots, managed,
                   exit_requested, rm_lock, dm_lock, pm_lock, containers, procs,
                   docker_available, stages, kill_log, held_at_stop, pm_calls,
                   local_start_calls, call>>

\* app.manage(AppState {..}), the tray is built and setup returns: its locals
\* are gone, the callbacks exist from here on.
manage ==
    /\ pc[Main] = "manage"
    /\ managed' = TRUE
    /\ Goto(Main, "done")
    /\ res' = [res EXCEPT ![Main] = NoRes]
    /\ docker_available' = FALSE
    /\ stages' = <<>>
    /\ UNCHANGED <<op, mode, run_mode, process_manager, slots,
                   exit_requested, rm_lock, dm_lock, pm_lock, containers, procs,
                   kill_log, held_at_stop, pm_calls, local_start_calls,
                   docker_log, call>>

----------------------------------------------------------------------------
(* main.rs: on_menu_event, restart_all, shutdown_all.                      *)

MenuIds == {"open", "docker_action", "restart", "quit"}

\* The first step of the match arm of a menu id.
menu_arm(id) ==
    CASE id = "open"          -> "open"
      [] id = "docker_action" -> "lock_dm"
      [] id = "restart"       -> "lock_rm"
      [] id = "quit"          -> "lock_rm"

\* A menu event is delivered: app.try_state is Some once manage has run.
on_menu_event(t, id) ==
    /\ t \in Threads
    /\ managed
    /\ ~exit_requested
    /\ pc[t] = "idle"
    /\ op' = [op EXCEPT ![t] = id]
    /\ Goto(t, menu_arm(id))
    /\ UNCHANGED <<mode, res, run_mode, process_manager, slots, managed,
                   exit_requested, rm_lock, dm_lock, pm_lock, containers, procs,
                   docker_available, stages, kill_log, held_at_stop, pm_calls,
                   local_start_calls,
                   docker_log, call>>

\* open::that("http://localhost:3000")
open(t) ==
    /\ pc[t] = "open"
    /\ Return(t)
    /\ UNCHANGED <<run_mode, process_manager, slots, managed, exit_requested,
                   rm_lock, dm_lock, pm_lock, containers, procs,
                   docker_available, stages, kill_log, held_at_stop, pm_calls,
                   local_start_calls,
                   docker_log, call>>

\* state.run_mode.lock()
lock_run_mode(t) ==
    /\ pc[t] = "lock_rm"
    /\ LockFree(rm_lock)
    /\ rm_lock' = t
    /\ Goto(t, "clone_rm")
    /\ UNCHANGED <<op, mode, res, run_mode, process_manager, slots, managed,
                   exit_requested, dm_lock, pm_lock, containers, procs,
                   docker_available, stages, kill_log, held_at_stop, pm_calls,
                   local_start_calls,
                   docker_log, call>>

\* `.unwrap().clone()`; the guard is dropped at the end of the statement and
\* the match on the clone picks the arm.
clone_run_mode_keep_lock(t) ==
    /\ pc[t] = "clone_rm"
    /\ mode' = [mode EXCEPT ![t] = run_mode]
    /\ rm_lock' = rm_lock
    /\ Goto(t, IF run_mode = "Docker" THEN "lock_dm" ELSE "lock_pm")
    /\ UNCHANGED <<op, res, run_mode, process_manager, slots, managed,
                   exit_requested, dm_lock, pm_lock, containers, procs,
                   docker_available, stages, kill_log, held_at_stop, pm_calls,
                   local_start_calls,
                   docker_log, call>>
clone_run_mode(t) ==
    /\ pc[t] = "clone_rm"
    /\ mode' = [mode EXCEPT ![t] = run_mode]
    /\ rm_lock' = 0
    /\ Goto(t, IF run_mode = "Docker" THEN "lock_dm" ELSE "lock_pm")
    /\ UNCHANGED <<op, res, run_mode, process_manager, slots, managed,
                   exit_requested, dm_lock, pm_lock, containers, procs,
                   docker_available, stages, kill_log, held_at_stop, pm_calls,
                   local_start_calls,
                   docker_log, call>>

\* `let dm = state.docker_manager.lock().unwrap();`
lock_docker_manager(t) ==
    /\ pc[t] = "lock_dm"
    /\ LockFree(dm_lock)
    /\ dm_lock' = t
    /\ Goto(t, IF op[t] = "docker_action" THEN "docker_action" ELSE "stop_containers")
    /\ UNCHANGED <<op, mode, res, run_mode, process_manager, slots, managed,
                   exit_requested, rm_lock, pm_lock, containers, procs,
                   docker_available, stages, kill_log, held_at_stop, pm_calls,
                   local_start_calls,
                   docker_log, call>>

\* docker_action: restart the containers when the engine answers; otherwise
\* open Docker Desktop or the download page, which touch no state.
docker_action(t) ==
    /\ pc[t] = "docker_action"
    /\ \E available, installed \in BOOLEAN :
         Goto(t, IF available THEN "stop_containers" ELSE "dm_unlock")
    /\ UNCHANGED <<op, mode, res, run_mode, process_manager, slots, managed,
                   exit_requested, rm_lock, dm_lock, pm_lock, containers, procs,
                   docker_available, stages, kill_log, held_at_stop, pm_calls,
                   local_start_calls,
                   docker_log, call>>

\* The guard dm goes out of scope; quit goes on to app.exit(0).
unlock_docker_manager(t) ==
    /\ pc[t] = "dm_unlock"
    /\ dm_lock' = 0
    /\ IF op[t] = "quit"
       THEN Goto(t, "exit") /\ UNCHANGED <<op, mode, res>>
       ELSE Return(t)
    /\ docker_log' = <<>>
    /\ UNCHANGED <<run_mode, process_manager, slots, managed, exit_requested,
                   rm_lock, pm_lock, containers, procs, docker_available, stages,
                   kill_log, held_at_stop, pm_calls, local_start_calls, call>>

\* `if let Some(pm) = state.process_manager.lock().unwrap().as_mut()`: the
\* guard lives until the end of the if-let.
lock_process_manager(t) ==
    /\ pc[t] = "lock_pm"
    /\ LockFree(pm_lock)
    /\ pm_lock' = t
    /\ Goto(t, IF process_manager = "Some"
               THEN (IF op[t] = "restart" THEN local_arm_first(op[t]) ELSE "stop_all")
               ELSE "pm_unlock")
    /\ UNCHANGED <<op, mode, res, run_mode, process_manager, slots, managed,
                   exit_requested, rm_lock, dm_lock, containers, procs,
                   docker_available, stages, kill_log, held_at_stop, pm_calls,
                   local_start_calls,
                   docker_log, call>>

\* The end of the if-let: the guard is dropped.  (The logs of the call that
\* just ended are dropped with it.)
unlock_process_manager(t) ==
    /\ pc[t] = "pm_unlock"
    /\ pm_lock' = 0
    /\ IF op[t] = "quit"
       THEN Goto(t, "exit") /\ UNCHANGED <<op, mode, res>>
       ELSE Return(t)
    /\ stages' = <<>>
    /\ kill_log' = <<>>
    /\ held_at_stop' = {}
    /\ UNCHANGED <<run_mode, process_manager, slots, managed, exit_requested,
                   rm_lock, dm_lock, containers, procs, docker_available,
                   pm_calls, local_start_calls,
                   docker_log, call>>

\* quit: app.exit(0) after shutdown_all has returned.
exit(t) ==
    /\ pc[t] = "exit"
    /\ exit_requested' = TRUE
    /\ Return(t)
    /\ UNCHANGED <<run_mode, process_manager, slots, managed, rm_lock, dm_lock,
                   pm_lock, containers, procs, docker_available, stages,
                   kill_log, held_at_stop, pm_calls, local_start_calls,
                   docker_log, call>>

----------------------------------------------------------------------------
(* The functions of ProcessManager and DockerManager applied on their own  *)
(* to every input of a bounded set, one application in a behaviour.        *)

app_vars == <<pc, op, mode, res, run_mode, process_manager, slots, managed,
              exit_requested, rm_lock, dm_lock, pm_lock, containers, procs,
              docker_available, stages, kill_log, held_at_stop, pm_calls,
              local_start_calls, docker_log>>

\* The filesystems find_resource_dir can meet: without the three ancestors
\* there is no dev_resources directory to hold a file.
FileSystems(has_ancestors) ==
    {fs \in [{Candidates[i] : i \in DOMAIN Candidates} -> SUBSET ResourceFiles] :
        ~has_ancestors => fs["dev_resources"] = {}}

\* ProcessManager::new up to `resource_dir: actual_resource_dir`, in a
\* build for Windows or for another platform.
new ==
    /\ call.fn = "none"
    /\ \E has_ancestors, windows \in BOOLEAN :
         \E fs \in FileSystems(has_ancestors) :
            call' = [fn |-> "find_resource_dir",
                     in |-> [fs |-> fs, has_ancestors |-> has_ancestors,
                             windows |-> windows],
                     out |-> find_resource_dir(fs, has_ancestors)]
    /\ UNCHANGED app_vars

\* The texts of at most n ConfChars.
Texts(n) == UNION {[1 .. k -> ConfChars] : k \in 0 .. n}

\* The states phoenix.conf can be in when read_phoenixd_password looks.
ConfFiles ==
    {[exists |-> FALSE, readable |-> FALSE, content |-> <<>>],
     [exists |-> TRUE, readable |-> FALSE, content |-> <<>>]}
    \cup {[exists |-> TRUE, readable |-> TRUE, content |-> c] :
             c \in Texts(MaxFileLen)}

\* start_backend's `self.read_phoenixd_password(&phoenixd_config)`.
read_password ==
    /\ call.fn = "none"
    /\ \E file \in ConfFiles :
         call' = [fn |-> "read_phoenixd_password",
                  in |-> file,
                  out |-> read_phoenixd_password(file)]
    /\ UNCHANGED app_vars

\* The lines `docker compose ps --format json` can print: text that is not
\* JSON, JSON that is not an object, and objects with or without the
\* members Name, State and Health.
PsLines ==
    {[json |-> j, Name |-> Absent, State |-> Absent, Health |-> Absent] :
        j \in {"invalid", "other"}}
    \cup [json : {"object"},
          Name : {Absent, Str("phoenixd")},
          State : {Absent, Str("running")},
          Health : {Absent, NotAString, Str("healthy")}]

\* What Command::output answers: Err, or an exit status and the lines of
\* stdout.
PsOutputs ==
    {[launched |-> FALSE, status |-> "nonzero", stdout_lines |-> <<>>]}
    \cup {[launched |-> TRUE, status |-> st, stdout_lines |-> ls] :
             st \in {"success", "nonzero"},
             ls \in UNION {[1 .. k -> PsLines] : k \in 0 .. MaxLines}}

\* A call of DockerManager::get_container_status.
container_status ==
    /\ call.fn = "none"
    /\ \E output \in PsOutputs :
         call' = [fn |-> "get_container_status",
                  in |-> output,
                  out |-> get_container_status(output)]
    /\ UNCHANGED app_vars

\* start_phoenixd on a ProcessManager whose phoenixd slot holds h, with
\* every answer of the filesystem, of PATH and of the operating system;
\* pid is the child a spawn that succeeds creates.
try_start_phoenixd ==
    /\ call.fn = "none"
    /\ \E bundled_exists, which_found, mkdir_ok, spawn_ok \in BOOLEAN :
         \E h \in {None} \cup Pids, pid \in Pids :
            LET result == start_phoenixd_result(bundled_exists, which_found,
                                                mkdir_ok, spawn_ok)
                ok == start_phoenixd_ok(bundled_exists, which_found,
                                        mkdir_ok, spawn_ok)
            IN  call' = [fn |-> "start_phoenixd",
                         in |-> [bundled_exists |-> bundled_exists,
                                 which_found |-> which_found,
                                 mkdir_ok |-> mkdir_ok,
                                 spawn_ok |-> spawn_ok,
                                 slot |-> h, pid |-> pid],
                         out |-> [path |-> get_phoenixd_binary_path(
                                              bundled_exists, which_found),
                                  result |-> result,
                                  ok |-> ok,
                                  slot |-> slot_after_stage(h, ok, pid)]]
    /\ UNCHANGED app_vars

\* find_node_binary with every answer of the filesystem and of PATH.
try_find_node_binary ==
    /\ call.fn = "none"
    /\ \E bundled_node, which_node \in BOOLEAN :
         call' = [fn |-> "find_node_binary",
                  in |-> [bundled_node |-> bundled_node,
                          which_node |-> which_node],
                  out |-> find_node_binary(bundled_node, which_node)]
    /\ UNCHANGED app_vars

\* start_backend, called again and again on the same data directory, with
\* every answer of the filesystem, of PATH and of the operating system: the
\* first call finds no dashboard.db or the user's, a later call finds what
\* the call before it left.
try_start_backend ==
    /\ call.fn \in {"none", "start_backend"}
    /\ \E bundled_node, which_node, entry_exists, template_exists, spawn_ok
            \in BOOLEAN :
         \E copy \in CopyOutcomes, first_db \in {"absent", "user"} :
            LET db == IF call.fn = "none" THEN first_db ELSE call.out.db
                calls == IF call.fn = "none" THEN 1 ELSE call.in.calls + 1
                r == start_backend_result(bundled_node, which_node,
                                          entry_exists, db, template_exists,
                                          copy, spawn_ok)
            IN  /\ calls <= MaxStarts
                /\ call' = [fn |-> "start_backend",
                            in |-> [bundled_node |-> bundled_node,
                                    which_node |-> which_node,
                                    entry_exists |-> entry_exists,
                                    db |-> db,
                                    template_exists |-> template_exists,
                                    copy |-> copy,
                                    spawn_ok |-> spawn_ok,
                                    calls |-> calls],
                            out |-> [result |-> r.result,
                                     ok |-> start_node_service_ok(
                                               bundled_node, which_node,
                                               entry_exists, spawn_ok),
                                     db |-> r.db]]
    /\ UNCHANGED app_vars

NextPure ==
    \/ new
    \/ try_start_backend
    \/ read_password
    \/ container_status
    \/ try_start_phoenixd
    \/ try_find_node_binary

SpecPure == Init /\ [][NextPure]_vars

----------------------------------------------------------------------------
(* A ProcessManager driven through its public functions, in any order, by  *)
(* callers that hold it exclusively (pm_lock stands for the &mut borrow).  *)

PmMethods == {"start_all", "stop_all", "get_status", "drop"}

\* ProcessManager::new: the three slots are None.
pm_new ==
    /\ process_manager = "None"
    /\ process_manager' = "Some"
    /\ slots' = EmptySlots
    /\ UNCHANGED <<pc, op, mode, res, run_mode, managed, exit_requested,
                   rm_lock, dm_lock, pm_lock, containers, procs,
                   docker_available, stages, kill_log, held_at_stop, pm_calls,
                   local_start_calls, docker_log, call>>

\* A caller enters one of the public functions, or lets the ProcessManager
\* go out of scope.
pm_call(t, m) ==
    /\ pc[t] = "idle"
    /\ process_manager = "Some"
    /\ LockFree(pm_lock)
    /\ pm_lock' = t
    /\ op' = [op EXCEPT ![t] = m]
    /\ Goto(t, IF m = "drop" THEN drop_first(m) ELSE m)
    /\ call' = NoCall
    /\ UNCHANGED <<mode, res, run_mode, process_manager, slots, managed,
                   exit_requested, rm_lock, dm_lock, containers, procs,
                   docker_available, stages, kill_log, held_at_stop, pm_calls,
                   local_start_calls, docker_log>>

\* get_status: reads the three slots through as_ref.
get_status(t) ==
    /\ pc[t] = "get_status"
    /\ \E alive \in [Services -> BOOLEAN] :
         /\ \A s \in Services : alive[s] => is_some(slots[s])
         /\ call' = [fn |-> "get_status",
                     in |-> [slots |-> slots, alive |-> alive],
                     out |-> [s \in Services |-> status_of(slots[s], alive[s])]]
    /\ Goto(t, "pm_unlock")
    /\ UNCHANGED <<op, mode, res, run_mode, process_manager, slots, managed,
                   exit_requested, rm_lock, dm_lock, pm_lock, containers, procs,
                   docker_available, stages, kill_log, held_at_stop, pm_calls,
                   local_start_calls, docker_log>>

\* The function returns to its caller; after drop the ProcessManager is no
\* more.
pm_return(t) ==
    /\ pc[t] = "pm_unlock"
    /\ pm_lock' = 0
    /\ process_manager' = IF op[t] = "drop" THEN "None" ELSE process_manager
    /\ Return(t)
    /\ stages' = <<>>
    /\ kill_log' = <<>>
    /\ held_at_stop' = {}
    /\ UNCHANGED <<run_mode, slots, managed, exit_requested, rm_lock, dm_lock,
                   containers, procs, docker_available, pm_calls,
                   local_start_calls, docker_log, call>>

NextPM ==
    \/ pm_new
    \/ \E t \in Threads, m \in PmMethods : pm_call(t, m)
    \/ \E t \in Threads : start_all(t)
    \/ \E t \in Threads : start_phoenixd(t)
    \/ \E t \in Threads : start_backend(t)
    \/ \E t \in Threads : start_frontend(t)
    \/ \E t \in Threads : stop_all(t)
    \/ \E t \in Threads, i \in DOMAIN StopOrder : stop_service(t, i)
    \/ \E t \in Threads : get_status(t)
    \/ \E t \in Threads : pm_return(t)

SpecPM == Init /\ [][NextPM]_vars

----------------------------------------------------------------------------

Next ==
    \/ setup
    \/ local_mode
    \/ local_done
    \/ docker_ok
    \/ manage
    \/ \E t \in Procs : start_all(t)
    \/ \E t \in Procs : start_phoenixd(t)
    \/ \E t \in Procs : start_backend(t)
    \/ \E t \in Procs : start_frontend(t)
    \/ \E t \in Procs : stop_all(t)
    \/ \E t \in Procs, i \in DOMAIN StopOrder : stop_service(t, i)
    \/ \E t \in Procs : start_containers(t)
    \/ \E t \in Procs : compose_up(t)
    \/ \E t \in Procs : stop_containers(t)
    \/ \E t \in Threads, id \in MenuIds : on_menu_event(t, id)
    \/ \E t \in Threads : open(t)
    \/ \E t \in Threads : lock_run_mode(t)
    \/ \E t \in Threads : clone_run_mode(t)
    \/ \E t \in Threads : lock_docker_manager(t)
    \/ \E t \in Threads : docker_action(t)
    \/ \E t \in Threads : unlock_docker_manager(t)
    \/ \E t \in Threads : lock_process_manager(t)
    \/ \E t \in Threads : unlock_process_manager(t)
    \/ \E t \in Threads : exit(t)

Spec == Init /\ [][Next]_vars

\* The steps of a callback t once on_menu_event has entered it.
callback(t) ==
    \/ start_all(t) \/ start_phoenixd(t) \/ start_backend(t)
    \/ start_frontend(t)
    \/ stop_all(t) \/ (\E i \in DOMAIN StopOrder : stop_service(t, i))
    \/ start_containers(t) \/ compose_up(t) \/ stop_containers(t)
    \/ open(t)
    \/ lock_run_mode(t) \/ clone_run_mode(t)
    \/ lock_docker_manager(t) \/ docker_action(t) \/ unlock_docker_manager(t)
    \/ lock_process_manager(t) \/ unlock_process_manager(t)
    \/ exit(t)

\* The application with its scheduling: the thread of a callback keeps
\* running, the external commands and the waits it issues return, and a
\* Mutex::lock on a mutex that is released again and again is granted.
FairSpec ==
    /\ Spec
    /\ \A t \in Threads : SF_vars(callback(t))

TypeOK ==
    /\ run_mode \in {"Unset", "Docker", "Local"}
    /\ process_manager \in {"None", "Some"}
    /\ \A s \in Services : slots[s] \in {None} \cup Pids
    /\ rm_lock \in {0} \cup Threads
    /\ dm_lock \in {0} \cup Threads
    /\ pm_lock \in {0} \cup Threads
    /\ \A p \in Pids : procs[p] \in {"none", "child"}
    /\ Len(stages) <= 3
    /\ Len(kill_log) <= 3

----------------------------------------------------------------------------
(* Properties.                                                             *)

StartPcs == {"start_phoenixd", "start_backend", "start_frontend"}
StopPcs == {"stop_frontend", "stop_backend", "stop_phoenixd"}
PmCritical == {"stop_all", "start_all", "pm_unlock"} \cup StartPcs \cup StopPcs
DmCritical == {"docker_action", "stop_containers", "start_containers",
               "compose_up", "dm_unlock"}
Errs == {"Err_phoenixd", "Err_backend", "Err_frontend"}

\* stop_all has returned to t and t has done nothing since.
StopAllReturned(t) ==
    /\ pm_calls[2] = "stop_all"
    /\ \/ op[t] = "quit" /\ pc[t] = "pm_unlock"
       \/ op[t] = "restart" /\ pc[t] = "start_all"

KilledServices == [i \in DOMAIN kill_log |-> kill_log[i].svc]

IsPrefix(a, b) == Len(a) <= Len(b) /\ \A i \in DOMAIN a : a[i] = b[i]

\* Every child in the process table is held by a slot.
NoOrphans == \A p \in Pids : procs[p] # "none" => \E s \in Services : slots[s] = p

\* C1: when stop_all returns and the ProcessManager call before it was
\* start_all, whatever start_all returned, the three slots are empty and no
\* child is left in the process table: every child start_all spawned was
\* killed and waited for; and at no time is a child without a handle.
C1_StartThenStopReapsAll ==
    /\ NoOrphans
    /\ \A t \in Procs :
         StopAllReturned(t) /\ pm_calls[1] = "start_all" =>
            /\ slots = EmptySlots
            /\ \A p \in Pids : procs[p] = "none"

\* stop_all has returned after a start_all that failed at the frontend stage,
\* and killed the two children that start_all had spawned.
C1_Witness ==
    \E t \in Threads :
        /\ StopAllReturned(t)
        /\ pm_calls[1] = "start_all"
        /\ held_at_stop = {"phoenixd", "backend"}
        /\ Len(kill_log) = 2

\* C2: a stop_all that starts with no handle in any slot, and a stop_all
\* that directly follows another stop_all, kills nothing and returns with
\* the three slots empty.
C2_StopAllIdempotent ==
    \A t \in Procs :
        StopAllReturned(t) /\ (held_at_stop = {} \/ pm_calls[1] = "stop_all") =>
            /\ kill_log = <<>>
            /\ held_at_stop = {}
            /\ slots = EmptySlots

\* A second stop_all in a row has returned.
C2_Witness ==
    \E t \in Threads : StopAllReturned(t) /\ pm_calls[1] = "stop_all"

\* C3: the stages a start_all attempts are a prefix of phoenixd, backend,
\* frontend, and a stage is attempted only when the one before it succeeded.
C3_StagesInOrder ==
    /\ Len(stages) <= 3
    /\ \A i \in DOMAIN stages :
         /\ stages[i].svc = <<"phoenixd", "backend", "frontend">>[i]
         /\ i > 1 => stages[i - 1].ok
    /\ \A t \in Procs :
         /\ pc[t] = "start_phoenixd" => stages = <<>>
         /\ pc[t] = "start_backend" => Len(stages) = 1 /\ stages[1].ok
         /\ pc[t] = "start_frontend" => Len(stages) = 2 /\ stages[2].ok

\* The frontend stage of a restart's start_all has been attempted.
C3_Witness ==
    \E t \in Threads : Len(stages) = 3 /\ pc[t] = "pm_unlock"

\* What holds once start_all has returned an error to t.
C4_AfterFailure(t) ==
    LET k == Len(stages) IN
    /\ pc[t] \in {"local_done", "manage", "pm_unlock"}
    /\ k >= 1
    /\ res[t].start_all = ErrOf[stages[k].svc]
    /\ ~stages[k].ok
    /\ \A i \in 1 .. 3 :
         LET svc == <<"phoenixd", "backend", "frontend">>[i] IN
         IF i < k
         THEN /\ stages[i].ok
              /\ slots[svc] = stages[i].pid
              /\ slots[svc] # None
              /\ procs[slots[svc]] # "none"
         ELSE slots[svc] = None

\* C4: the stage that fails spawns nothing and changes no slot; start_all
\* then returns the error with no later stage attempted, the slot of the
\* failed stage and of the later stages empty, and the children of the
\* earlier stages still in their slots, neither killed nor reaped.
C4_FailureAbortsWithoutRollback ==
    /\ [](\A t \in Procs : res[t].start_all \in Errs => C4_AfterFailure(t))
    /\ [][\A t \in Procs :
            res[t].start_all = "none" /\ res'[t].start_all \in Errs =>
                slots' = slots /\ procs' = procs]_vars

\* A restart's start_all has failed at the frontend stage, with phoenixd and
\* the backend left in their slots.
C4_Witness ==
    \E t \in Threads :
        /\ res[t].start_all = "Err_frontend"
        /\ pc[t] = "pm_unlock"
        /\ slots.phoenixd # None
        /\ slots.backend # None

\* C5: stop_all kills and reaps exactly the children whose slots held a
\* handle when it began, the frontend before the backend and the backend
\* before phoenixd, and returns with the three slots empty.
C5_StopInReverseOrder ==
    LET expected == SelectSeq(<<"frontend", "backend", "phoenixd">>,
                              LAMBDA s : s \in held_at_stop)
    IN  /\ IsPrefix(KilledServices, expected)
        /\ \A i \in DOMAIN kill_log : kill_log[i].pid # None
        /\ \A t \in Procs :
             /\ pc[t] = "stop_backend" => slots.frontend = None
             /\ pc[t] = "stop_phoenixd" =>
                    slots.frontend = None /\ slots.backend = None
             /\ StopAllReturned(t) =>
                    KilledServices = expected /\ slots = EmptySlots

\* stop_all has returned after killing all three services.
C5_Witness ==
    \E t \in Threads : StopAllReturned(t) /\ Len(kill_log) = 3

\* C6: setup chooses Docker exactly when docker is available and
\* start_containers returned Ok, and then no ProcessManager is constructed,
\* start_all is never called by setup and no child is ever spawned; in every
\* other case setup constructs the ProcessManager, calls start_all once and
\* chooses Local.
C6_ModeSelection ==
    /\ pc[Main] = "docker_ok" =>
         docker_available /\ res[Main].start_containers = "Ok"
    /\ pc[Main] = "manage" =>
         IF docker_available /\ res[Main].start_containers = "Ok"
         THEN run_mode = "Docker"
         ELSE /\ run_mode = "Local"
              /\ process_manager = "Some"
              /\ local_start_calls = 1
    /\ (pc[Main] = "docker_ok" \/ run_mode = "Docker") =>
         /\ process_manager = "None"
         /\ local_start_calls = 0
         /\ slots = EmptySlots
         /\ \A p \in Pids : procs[p] = "none"
         /\ \A t \in Procs : pc[t] \notin StartPcs \cup StopPcs
    /\ run_mode = "Local" => process_manager = "Some" /\ local_start_calls = 1
    /\ local_start_calls <= 1

\* Docker was available, start_containers failed and setup fell back to Local.
C6_Witness ==
    /\ pc[Main] = "manage"
    /\ docker_available
    /\ res[Main].start_containers \in {"Err_not_found", "Err_pull", "Err_up"}
    /\ run_mode = "Local"
    /\ local_start_calls = 1

\* C7: when setup's start_all returns an error, setup goes on: it stores the
\* ProcessManager with the handles it holds, sets run_mode to Local and
\* registers the state unchanged; from then on restart and quit can be
\* invoked by any idle callback.
C7_FailedLocalStartStillCompletes ==
    /\ [](res[Main].start_all \in Errs =>
            /\ pc[Main] \in {"local_done", "manage"}
            /\ process_manager = "Some"
            /\ pc[Main] = "local_done" => ENABLED local_done
            /\ pc[Main] = "manage" => run_mode = "Local" /\ ENABLED manage)
    /\ [][pc[Main] = "manage" /\ pc'[Main] # "manage" =>
            /\ pc'[Main] = "done"
            /\ managed'
            /\ slots' = slots
            /\ run_mode' = run_mode
            /\ process_manager' = process_manager]_vars
    /\ [](managed /\ ~exit_requested =>
            \A t \in Threads :
                pc[t] = "idle" => /\ ENABLED on_menu_event(t, "restart")
                                  /\ ENABLED on_menu_event(t, "quit"))

\* setup is about to register the state after start_all failed at the
\* backend stage, with phoenixd's handle in its slot.
C7_Witness ==
    /\ pc[Main] = "manage"
    /\ res[Main].start_all = "Err_backend"
    /\ slots.phoenixd # None
    /\ run_mode = "Local"

\* C8: once the state is registered no step changes run_mode.
C8_RunModeFixed == [][managed => run_mode' = run_mode]_vars

\* In Local mode the docker_action callback has brought the containers up.
C8_Witness ==
    \E t \in Threads :
        /\ op[t] = "docker_action"
        /\ pc[t] = "dm_unlock"
        /\ res[t].start_containers = "Ok"
        /\ run_mode = "Local"

\* C9: a handle is stored only into an empty slot, no two slots hold the
\* same child, and every child in the process table is held by a slot.
C9_OneHandlePerSlot ==
    /\ [](NoOrphans)
    /\ [](\A s1, s2 \in Services :
            s1 # s2 /\ slots[s1] # None => slots[s1] # slots[s2])
    /\ [][\A s \in Services :
            slots'[s] # slots[s] /\ slots'[s] # None => slots[s] = None]_vars

\* A restart has stored a new phoenixd handle after setup's start_all had
\* started all three services.
C9_Witness ==
    \E t \in Threads :
        /\ op[t] = "restart"
        /\ pc[t] = "start_backend"
        /\ held_at_stop = Services
        /\ slots.phoenixd # None

\* C10: a callback is inside the stop/start steps of the ProcessManager only
\* while it holds process_manager's lock, and inside the down/pull/up steps of
\* the DockerManager only while it holds docker_manager's lock; so no two
\* callbacks are inside the same supervisor at once, and setup is inside one
\* only before any callback exists.
C10_MutualExclusion ==
    /\ \A t \in Threads :
         /\ pc[t] \in PmCritical => pm_lock = t
         /\ pc[t] \in DmCritical => dm_lock = t
    /\ \A t1, t2 \in Threads :
         t1 # t2 => /\ ~(pc[t1] \in PmCritical /\ pc[t2] \in PmCritical)
                    /\ ~(pc[t1] \in DmCritical /\ pc[t2] \in DmCritical)
    /\ pc[Main] \in PmCritical \cup DmCritical =>
         ~managed /\ \A t \in Threads : pc[t] = "idle"

\* One restart is between its stop and start steps while another restart
\* waits for the lock.
C10_Witness ==
    \E t1, t2 \in Threads :
        /\ op[t1] = "restart" /\ pc[t1] = "start_backend"
        /\ op[t2] = "restart" /\ pc[t2] = "lock_pm"

\* A step of the shutdown_all of a quit callback t.
ShutdownStep(t) == op[t] = "quit" /\ pc'[t] # pc[t]

\* C11: shutdown_all can be called in every state and has no error to
\* report.  Local mode: when its stop_all returns the three slots are empty
\* and no child is left, also when the start_all before it failed at a
\* stage.  Docker mode: without a compose file stop_containers runs no
\* command and returns Ok; a `down` that fails is dropped and the callback
\* goes on to its exit like after a successful one.  A shutdown_all that
\* finds what a shutdown_all leaves behind (empty slots, no containers up)
\* changes nothing, and no shutdown_all in Docker mode touches the
\* ProcessManager.
C11_ShutdownAllSafe ==
    /\ [](\A t \in Threads : op[t] = "quit" =>
            /\ pc[t] = "pm_unlock" =>
                  /\ slots = EmptySlots
                  /\ \A p \in Pids : procs[p] = "none"
            /\ pc[t] = "dm_unlock" =>
                  /\ Len(docker_log) >= 1
                  /\ docker_log[1].by = "stop_containers"
                  /\ IF docker_log[1].out = "neither"
                     THEN Len(docker_log) = 1 /\ res[t].stop_containers = "Ok"
                     ELSE /\ Len(docker_log) = 2
                          /\ docker_log[2].cmd = "down"
                          /\ res[t].stop_containers = "Ok"
                                <=> docker_log[2].out = "success")
    /\ [][\A t \in Threads : ShutdownStep(t) =>
            /\ pc[t] = "stop_containers" =>
                  /\ pc'[t] = "dm_unlock"
                  /\ containers' => containers
                  /\ UNCHANGED <<slots, procs, process_manager, run_mode>>
            /\ pc[t] \in {"dm_unlock", "pm_unlock"} => pc'[t] = "exit"
            /\ pc[t] = "exit" => exit_requested'
            /\ pc[t] \in StopPcs \cup {"stop_all"} =>
                  /\ UNCHANGED <<containers, process_manager, run_mode>>
                  /\ slots = EmptySlots => UNCHANGED <<slots, procs>>]_vars

\* A shutdown_all has emptied the slots after a start_all that failed at
\* start_backend and left phoenixd's child in its slot.
C11_Witness ==
    \E t \in Threads :
        /\ op[t] = "quit" /\ pc[t] = "pm_unlock"
        /\ pm_calls = <<"start_all", "stop_all">>
        /\ held_at_stop = {"phoenixd"}
        /\ Len(kill_log) = 1
        /\ slots = EmptySlots

\* The position of candidate c in the order find_resource_dir looks.
CandidatePos(c) == CHOOSE i \in DOMAIN Candidates : Candidates[i] = c

\* Candidate c exists and holds the daemon binary, backend/dist/index.js
\* and frontend/server.js.
Complete(fs, has_ancestors, c) ==
    /\ c = "dev_resources" => has_ancestors
    /\ fs[c] \cap {"phoenixd", "phoenixd.exe"} # {}
    /\ {"index.js", "server.js"} \subseteq fs[c]

\* C12: find_resource_dir always returns a directory: the first of
\* default_dir, default_dir/_up_/resources and the resources directory
\* three levels above default_dir that holds the daemon binary,
\* backend/dist/index.js and frontend/server.js, and default_dir itself
\* when none of them does.
C12_FirstCompleteCandidate ==
    call.fn = "find_resource_dir" =>
        LET fs == call.in.fs
            anc == call.in.has_ancestors
            complete == {i \in DOMAIN Candidates : Complete(fs, anc, Candidates[i])}
        IN  /\ call.out \in {Candidates[i] : i \in DOMAIN Candidates}
            /\ IF complete = {}
               THEN call.out = "default_dir"
               ELSE /\ CandidatePos(call.out) \in complete
                    /\ \A i \in complete : CandidatePos(call.out) <= i

\* Two candidates are complete and the first in order is not: the second
\* one is returned, not the third.
C12_Witness ==
    /\ call.fn = "find_resource_dir"
    /\ ~Complete(call.in.fs, call.in.has_ancestors, "default_dir")
    /\ Complete(call.in.fs, call.in.has_ancestors, "up_resources")
    /\ Complete(call.in.fs, call.in.has_ancestors, "dev_resources")
    /\ call.out = "up_resources"

\* The lines of the file read_phoenixd_password was called on.
ConfLines == lines(call.in.content)

\* The lines of ConfLines that begin with "http-password=".
PasswordLines == {i \in DOMAIN ConfLines : starts_with(ConfLines[i])}

\* C13: read_phoenixd_password returns "" for a file that is missing,
\* unreadable or without a line that begins with "http-password="; else it
\* returns what follows the leading "http-password=" on the first such
\* line, trimmed, whatever that text holds.
C13_PasswordIsRestOfFirstLine ==
    call.fn = "read_phoenixd_password" =>
        IF ~call.in.exists \/ ~call.in.readable \/ PasswordLines = {}
        THEN call.out = <<>>
        ELSE LET first == CHOOSE i \in PasswordLines :
                             \A j \in PasswordLines : i <= j
             IN  call.out = trim(Tail(ConfLines[first]))

\* The process whose DockerManager call docker_log describes: setup before
\* the callbacks exist, the holder of the docker_manager lock after.
DockerCaller == IF managed THEN dm_lock ELSE Main

\* C14: when the compose file is at neither of its two paths,
\* stop_containers returns Ok and start_containers returns an error, and
\* neither of them runs a command: no pull, no up, no down, and the
\* containers are as they were.
C14_NoComposeFile ==
    /\ [](docker_log # <<>> /\ docker_log[1].out = "neither" =>
            /\ Len(docker_log) = 1
            /\ pc[DockerCaller] # "compose_up"
            /\ IF docker_log[1].by = "stop_containers"
               THEN res[DockerCaller].stop_containers = "Ok"
               ELSE res[DockerCaller].start_containers = "Err_not_found")
    /\ [][docker_log' # docker_log /\ docker_log' # <<>>
             /\ docker_log'[1].out = "neither"
          => UNCHANGED containers]_vars

\* A restart_all in Docker mode found no compose file in stop_containers
\* and none in start_containers.
C14_Witness ==
    \E t \in Threads :
        /\ op[t] = "restart" /\ pc[t] = "dm_unlock"
        /\ docker_log = <<Looked("start_containers", FALSE, FALSE)>>
        /\ res[t].start_containers = "Err_not_found"

\* C15: when start_containers finds the compose file, the pull is run and,
\* whether it succeeds, exits non-zero or cannot be launched, the up is run
\* after it; start_containers returns Ok when the up succeeds and the
\* error of the up otherwise, never an error of the pull.
C15_PullNeverFatal ==
    docker_log # <<>> /\ docker_log[1].by = "start_containers"
        /\ docker_log[1].out = "found"
    => /\ Len(docker_log) >= 2
       /\ docker_log[2].cmd = "pull"
       /\ res[DockerCaller].start_containers # "Err_pull"
       /\ IF Len(docker_log) = 2
          THEN pc[DockerCaller] = "compose_up"
          ELSE /\ docker_log[3].cmd = "up"
               /\ res[DockerCaller].start_containers =
                    IF docker_log[3].out = "success" THEN "Ok" ELSE "Err_up"

\* The lines of the status command's output that are JSON, in their order.
ParsedLines == SelectSeq(call.in.stdout_lines, from_str_ok)

\* Line li has a member Health.
HasHealth(li) == li.json = "object" /\ li.Health.is # "absent"

\* Record r is the record of line li: its name and status are the line's
\* Name and State when these are strings, and its health is the line's
\* Health when that is a string and is absent when the line has none.
RecordOf(r, li) ==
    /\ li.json = "object" /\ li.Name.is = "string" => r.name = li.Name.s
    /\ li.json = "object" /\ li.State.is = "string" => r.status = li.State.s
    /\ li.json = "object" /\ li.Health.is = "string" => r.health = <<li.Health.s>>
    /\ ~HasHealth(li) => r.health = <<>>

\* C16: when the status command ran and exited with success,
\* get_container_status returns one record for every line that parses, in
\* the order of the lines, without a health when the line has no Health;
\* lines that do not parse are left out wherever they stand.  When the
\* command could not be run or exited non-zero it returns the empty list.
C16_OneRecordPerParsedLine ==
    call.fn = "get_container_status" =>
        IF call.in.launched /\ call.in.status = "success"
        THEN /\ Len(call.out) = Len(ParsedLines)
             /\ \A i \in DOMAIN ParsedLines : RecordOf(call.out[i], ParsedLines[i])
        ELSE call.out = <<>>

\* A line that does not parse stands before a line that parses and has no
\* Health: the result is the record of the second line.
C16_Witness ==
    /\ call.fn = "get_container_status"
    /\ call.in.launched /\ call.in.status = "success"
    /\ Len(call.in.stdout_lines) = 2
    /\ ~from_str_ok(call.in.stdout_lines[1])
    /\ call.in.stdout_lines[2].json = "object"
    /\ call.in.stdout_lines[2].Name.is = "string"
    /\ ~HasHealth(call.in.stdout_lines[2])
    /\ call.out = <<[name |-> "phoenixd", status |-> "unknown", health |-> <<>>]>>

\* C17: dropping the ProcessManager runs stop_all.  Whatever the slots held
\* when drop began, when it ends every child a slot held has been killed
\* and waited for and the three slots are empty; each step of it kills and
\* reaps the child of the slot it takes.
C17_DropStopsAll ==
    /\ [](\A t \in Threads : op[t] = "drop" /\ pc[t] = "pm_unlock" =>
            /\ pm_calls[2] = "stop_all"
            /\ slots = EmptySlots
            /\ {kill_log[i].svc : i \in DOMAIN kill_log} = held_at_stop
            /\ \A i \in DOMAIN kill_log : procs[kill_log[i].pid] = "none")
    /\ [][\A t \in Threads, s \in Services :
            op[t] = "drop" /\ pc[t] = StopPc[s] /\ pc'[t] # pc[t]
                /\ slots[s] # None
            => procs[slots[s]] = "child" /\ procs'[slots[s]] = "none"
               /\ slots'[s] = None]_vars

\* A ProcessManager that held phoenixd and backend after a start_all that
\* failed at start_frontend has been dropped.
C17_Witness ==
    \E t \in Threads :
        /\ op[t] = "drop" /\ pc[t] = "pm_unlock"
        /\ pm_calls = <<"start_all", "stop_all">>
        /\ held_at_stop = {"phoenixd", "backend"}
        /\ Len(kill_log) = 2

\* C18: get_status reports for every slot that holds a handle that the
\* service is running, with the pid of the handle, whether or not the child
\* still runs; it reports null for an empty slot; and it leaves the slots
\* and the children as they are.
C18_StatusIsHandlePresence ==
    /\ [](call.fn = "get_status" =>
            /\ slots = call.in.slots
            /\ \A s \in Services :
                  IF call.in.slots[s] = None
                  THEN call.out[s] = <<>>
                  ELSE call.out[s] = <<[running |-> TRUE,
                                        pid |-> call.in.slots[s]]>>)
    /\ [][\A t \in Threads : pc[t] = "get_status" /\ pc'[t] # pc[t]
            => UNCHANGED <<slots, procs, process_manager>>]_vars

\* get_status was called while phoenixd's slot held a child that no longer
\* ran and frontend's slot was empty.
C18_Witness ==
    /\ call.fn = "get_status"
    /\ call.in.slots["phoenixd"] # None
    /\ ~call.in.alive["phoenixd"]
    /\ call.out["phoenixd"] # <<>>
    /\ call.in.slots["frontend"] = None

\* C19: when find_resource_dir returns a candidate it found complete, the
\* daemon binary exists in it under the name of the platform the program
\* was built for, so that get_phoenixd_binary_path, whatever PATH holds,
\* returns the bundled binary of that directory and start_phoenixd finds
\* it there.
C19_CompleteMeansPlatformBinary ==
    call.fn = "find_resource_dir" =>
        LET dir == call.in.fs[call.out]
            bundled_exists == binary_name(call.in.windows) \in dir
        IN  has_all_resources(dir) =>
                /\ bundled_exists
                /\ \A which_found \in BOOLEAN :
                      get_phoenixd_binary_path(bundled_exists, which_found)
                          = "bundled"

\* A step of the restart_all of a restart callback t.
RestartStep(t) == op[t] = "restart" /\ pc'[t] # pc[t]

\* C20: restart_all works on the supervisor of the mode it read and on
\* nothing else, and stops before it starts.  Local mode: while stop_all
\* runs nothing has been spawned; start_all begins after stop_all, with
\* the three slots empty and no child left.  Docker mode: start_containers
\* begins after stop_containers has looked for the compose file and, having
\* found it, has run `down`; whatever `down` answered, start_containers is
\* called next.  The Local arm takes no docker_manager lock and changes no
\* container, the Docker arm takes no process_manager lock and changes no
\* slot and no child.
C20_RestartStopsThenStarts ==
    /\ [](\A t \in Threads : op[t] = "restart" =>
            /\ mode[t] # "Unset" => mode[t] = run_mode
            /\ mode[t] = "Local" => dm_lock # t
            /\ mode[t] = "Docker" => pm_lock # t
            /\ pc[t] \in StopPcs \cup {"stop_all"} => stages = <<>>
            /\ pc[t] = "start_all" =>
                  /\ pm_calls[2] = "stop_all"
                  /\ slots = EmptySlots
                  /\ \A p \in Pids : procs[p] = "none"
            /\ pc[t] \in StartPcs => pm_calls = <<"stop_all", "start_all">>
            /\ pc[t] = "start_containers" =>
                  /\ docker_log # <<>>
                  /\ docker_log[1].by = "stop_containers"
                  /\ docker_log[1].out = "found" =>
                        Len(docker_log) = 2 /\ docker_log[2].cmd = "down"
            /\ pc[t] = "compose_up" =>
                  docker_log # <<>> /\ docker_log[1].by = "start_containers")
    /\ [][\A t \in Threads : RestartStep(t) =>
            /\ pc[t] = "stop_containers" => pc'[t] = "start_containers"
            /\ mode[t] = "Local" => UNCHANGED <<containers, docker_log, dm_lock>>
            /\ mode[t] = "Docker" =>
                  UNCHANGED <<slots, procs, process_manager, pm_lock, stages,
                              kill_log, pm_calls>>]_vars

\* A restart_all in Docker mode is about to call start_containers after a
\* `down` that exited non-zero.
C20_Witness ==
    \E t \in Threads :
        /\ op[t] = "restart" /\ pc[t] = "start_containers"
        /\ docker_log = <<Looked("stop_containers", TRUE, FALSE),
                          Ran("stop_containers", "down", "nonzero")>>
        /\ res[t].stop_containers = "Err_down"

\* The path start_phoenixd resolved exists: the bundled binary when that
\* is the path, a binary found on PATH always.
ResolvedExists ==
    IF call.out.path = "bundled" THEN call.in.bundled_exists ELSE TRUE

\* The order of resolution in start_phoenixd and in find_node_binary.
C21_ResolutionOrder ==
    /\ call.fn = "start_phoenixd" =>
          call.out.path = IF call.in.bundled_exists THEN "bundled"
                          ELSE IF call.in.which_found THEN "system"
                          ELSE "bundled"
    /\ call.fn = "find_node_binary" =>
          call.out = IF call.in.bundled_node THEN "bundled"
                     ELSE IF call.in.which_node THEN "system"
                     ELSE "Err"

\* C21 as claimed: the binaries are resolved bundled first, PATH second,
\* and start_phoenixd fails, without a spawn and with the slot as it was,
\* exactly when the resolved path does not exist.
C21_FailsExactlyWhenMissing ==
    /\ C21_ResolutionOrder
    /\ call.fn = "start_phoenixd" =>
          /\ ~call.out.ok <=> ~ResolvedExists
          /\ ~call.out.ok =>
                /\ call.out.result # "Ok"
                /\ call.out.slot = call.in.slot

\* C21, amended: the binaries are resolved bundled first, PATH second;
\* start_phoenixd fails with the slot as it was whenever the resolved path
\* does not exist, and then before create_dir_all and before any spawn;
\* it also fails, with the slot as it was, when create_dir_all fails or
\* the spawn is refused, and succeeds in every other case, storing the
\* child it spawned.
C21_FailsWhenMissing ==
    /\ C21_ResolutionOrder
    /\ call.fn = "start_phoenixd" =>
          /\ ~ResolvedExists => call.out.result = "Err_not_found"
          /\ call.out.result = "Err_not_found" => ~ResolvedExists
          /\ call.out.ok <=> call.out.result = "Ok"
          /\ call.out.ok <=>
                ResolvedExists /\ call.in.mkdir_ok /\ call.in.spawn_ok
          /\ call.out.slot = IF call.out.ok THEN call.in.pid ELSE call.in.slot

\* start_phoenixd found no bundled binary and none on PATH, and failed on
\* the bundled path with the slot still holding what it held.
C21_Witness ==
    /\ call.fn = "start_phoenixd"
    /\ ~call.in.bundled_exists /\ ~call.in.which_found
    /\ call.out.path = "bundled"
    /\ call.out.result = "Err_not_found"
    /\ call.in.slot # None /\ call.out.slot = call.in.slot

\* C22: start_backend copies template.db to dashboard.db only when
\* dashboard.db does not exist and template.db does; a dashboard.db that
\* exists is left as it is by every call of any sequence of calls; and
\* whether the template is missing or the copy fails has no influence on
\* the spawn: the backend is started exactly when node is found, the entry
\* file exists and the spawn succeeds.
C22_DatabaseNeverOverwritten ==
    call.fn = "start_backend" =>
        /\ call.out.db # call.in.db =>
              /\ call.in.db = "absent"
              /\ call.in.template_exists
              /\ call.out.db \in {"template", "partial"}
        /\ call.out.db = "template" /\ call.in.db # "template" =>
              call.in.copy = "ok"
        /\ call.in.db # "absent" => call.out.db = call.in.db
        /\ call.out.result = "Ok" <=>
              /\ call.in.bundled_node \/ call.in.which_node
              /\ call.in.entry_exists
              /\ call.in.spawn_ok
        /\ call.out.ok <=> call.out.result = "Ok"

\* A later call of start_backend found the user's dashboard.db and a
\* template.db it could have copied over it, left dashboard.db as it was
\* and started the backend.
C22_Witness ==
    /\ call.fn = "start_backend"
    /\ call.in.calls > 1
    /\ call.in.db = "user"
    /\ call.in.template_exists /\ call.in.copy = "ok"
    /\ call.out.db = "user"
    /\ call.out.result = "Ok"

\* C23: in every state of the ProcessManager, between the steps of
\* start_all and of stop_all too, the slots that hold a handle are a prefix
\* of phoenixd, backend, frontend: frontend holds one only if backend
\* does, backend only if phoenixd does.
C23_SlotsFormPrefix ==
    /\ slots["frontend"] # None => slots["backend"] # None
    /\ slots["backend"] # None => slots["phoenixd"] # None

\* stop_all has taken frontend's handle and not yet backend's.
C23_Witness ==
    \E t \in Threads :
        /\ pc[t] = "stop_backend"
        /\ slots["frontend"] = None
        /\ slots["backend"] # None
        /\ slots["phoenixd"] # None
        /\ "frontend" \in held_at_stop

\* C24: when the stop of a shutdown_all has returned, no slot holds a
\* handle and no child is left, and if containers the application brought
\* up are still up then this shutdown_all has called stop_containers for
\* them, whatever run_mode is.
C24_NothingLeftRunning ==
    \A t \in Threads :
        op[t] = "quit" /\ pc[t] \in {"dm_unlock", "pm_unlock"} =>
            /\ slots = EmptySlots
            /\ \A p \in Pids : procs[p] = "none"
            /\ containers =>
                  /\ pc[t] = "dm_unlock"
                  /\ docker_log # <<>>
                  /\ docker_log[1].by = "stop_containers"

\* C25: once setup has handed AppState to the application, run_mode is
\* Local exactly when AppState holds a ProcessManager.  A restart_all or
\* shutdown_all that read Docker never takes the process_manager lock, and
\* while run_mode is Docker none of their steps changes a slot or a child.
\* A restart_all that read Local and took the process_manager lock finds
\* the ProcessManager and goes on to stop_all.
C25_ModeMatchesProcessManager ==
    /\ [](managed =>
            /\ run_mode \in {"Local", "Docker"}
            /\ run_mode = "Local" <=> process_manager = "Some")
    /\ [](\A t \in Threads : op[t] \in {"restart", "quit"} =>
            /\ mode[t] = "Docker" =>
                  pm_lock # t /\ pc[t] \notin PmCritical \cup {"lock_pm"}
            /\ mode[t] = "Local" /\ pm_lock = t => process_manager = "Some")
    /\ [][\A t \in Threads :
            op[t] \in {"restart", "quit"} /\ pc'[t] # pc[t] =>
                /\ run_mode = "Docker" => UNCHANGED <<slots, procs>>
                /\ op[t] = "restart" /\ pc[t] = "lock_pm" =>
                      pc'[t] = "stop_all"]_vars

\* A restart_all that read Local holds the process_manager lock and is
\* about to stop the children of the ProcessManager it found.
C25_Witness ==
    \E t \in Threads :
        /\ op[t] = "restart" /\ mode[t] = "Local"
        /\ pm_lock = t /\ pc[t] = "stop_all"
        /\ process_manager = "Some"
        /\ slots["phoenixd"] # None

\* The locks process t holds.
LocksHeld(t) ==
    {l \in {"run_mode", "docker_manager", "process_manager"} :
        \/ l = "run_mode" /\ rm_lock = t
        \/ l = "docker_manager" /\ dm_lock = t
        \/ l = "process_manager" /\ pm_lock = t}

shutdown_all_returned ==
    \/ exit_requested
    \/ \E t \in Threads : op[t] = "quit" /\ pc[t] = "exit"

\* C27: once the shutdown_all of the quit callback has returned, no step of
\* a restart or docker-action callback, entered before or after, spawns a
\* native process or brings the containers up.
C27_ShutdownIsFinal ==
    [][shutdown_all_returned =>
          /\ containers' => containers
          /\ \A p \in Pids : procs'[p] = "child" => procs[p] = "child"]_vars

====
